---- MODULE Spec2Model ----
(***************************************************************************)
(* Model of Project_2/main.py: an in-memory book catalogue served by       *)
(* FastAPI handlers over the module-level list BOOKS.                      *)
(*                                                                         *)
(* A stored object is modelled as a record with the six attributes of      *)
(* class Book.  A BookRequest carries the same attributes; its id is       *)
(* Optional[int], modelled as a set: {} is None and {n} is the integer n,  *)
(* so that None never equals an integer id.                                *)
(* Every handler is one atomic action: it reads its inputs, runs to its    *)
(* return or raise, and leaves the HTTP response in `last`.                *)
(*                                                                         *)
(* The handlers are modelled as the operations they implement, each called *)
(* with its declared parameters; which URL reaches which handler is not    *)
(* modelled.  The file registers two handlers for the published-year path  *)
(* and two update handlers (GET and PUT, on a path written without its     *)
(* leading slash); all four are actions here.                              *)
(*                                                                         *)
(* `run` is a history variable: the ids assigned by the creates made in a  *)
(* row since the collection was last empty.  `used` is a history variable  *)
(* too, the ids any record has held so far; it is kept by SpecHistory only. *)
(* `inflight` holds the requests of a batch that clients have sent at the  *)
(* same time and the answers they got; it is used by SpecConcurrent only.  *)
(***************************************************************************)
EXTENDS Integers, Sequences, FiniteSets, TLC

VARIABLES BOOKS, last, run, used, inflight

vars == <<BOOKS, last, run, used, inflight>>

(* ---------------------------- bounds ---------------------------------- *)

\* largest id create may assign in the model (ids are unbounded in Python)
MaxId == 7

\* number of requests in a batch sent at the same time
NumRequests == 3

(* ------------------------- data of the program ------------------------ *)

None == {}

Some(n) == {n}

\* class Book, __init__
Book(id, title, author, description, rating, published_date) ==
    [id |-> id, title |-> title, author |-> author,
     description |-> description, rating |-> rating,
     published_date |-> published_date]

\* the module-level list BOOKS as it is after import
SeedBooks ==
    << Book(1, "Computer Science Pro", "codingwithroby", "A very nice book!", 5, 2030),
       Book(2, "Be Fast with FastAPI", "codingwithroby", "A great book!", 5, 2030),
       Book(3, "Master Endpoints", "codingwithroby", "A awesome book!", 5, 2029),
       Book(4, "HP1", "Author 1", "Book Description", 2, 2028),
       Book(5, "HP2", "Author 2", "Book Description", 3, 2027),
       Book(6, "HP3", "Author 3", "Book Description", 1, 2026) >>

\* wrong field rules: the upper limits taken as inclusive (le for lt)
BookRequestValidInclusive(req) ==
    /\ Len(req.title) >= 3
    /\ Len(req.author) >= 1
    /\ Len(req.description) >= 1
    /\ Len(req.description) <= 100
    /\ req.rating > 0
    /\ req.rating <= 6
    /\ req.published_date > 1999
    /\ req.published_date <= 2024

\* BookRequest: the field rules of the pydantic model
BookRequestValid(req) ==
    /\ Len(req.title) >= 3
    /\ Len(req.author) >= 1
    /\ Len(req.description) >= 1
    /\ Len(req.description) <= 100
    /\ req.rating > 0
    /\ req.rating < 6
    /\ req.published_date > 1999
    /\ req.published_date < 2024

\* Path(gt=0) on book_id
PathIdValid(book_id) == book_id > 0

\* Query(gt=0, lt=6) on book_rating
QueryRatingValid(book_rating) == book_rating > 0 /\ book_rating < 6

(* ------------------------------ inputs -------------------------------- *)

\* the example of BookRequest.model_config
ExamplePayload ==
    [title |-> "A new book", author |-> "codingwithroby",
     description |-> "A new description of a book", rating |-> 5,
     published_date |-> 2024]

\* the one well-formed payload the model posts: the example, with a year the
\* rules accept
ValidContents == { [ExamplePayload EXCEPT !.published_date = 2023] }

InvalidContents ==
    { ExamplePayload,
      [title |-> "ab", author |-> "", description |-> "", rating |-> 0,
       published_date |-> 1999] }

Contents == ValidContents \cup InvalidContents

RequestIds == {None} \cup { Some(n) : n \in 1..MaxId }

WithId(c, i) ==
    [id |-> i, title |-> c.title, author |-> c.author,
     description |-> c.description, rating |-> c.rating,
     published_date |-> c.published_date]

\* bodies posted to /create-book: with and without a client-supplied id
CreateRequests ==
    { WithId(c, None) : c \in Contents }
        \cup { WithId(c, Some(1)) : c \in ValidContents }

\* bodies sent to update_book: every id, and no id at all
UpdateRequests ==
    { WithId(c, i) : c \in ValidContents, i \in RequestIds }
        \cup { WithId(c, Some(1)) : c \in InvalidContents }

\* payloads on both sides of every field rule, to exercise the validator:
\* titles of 2 and 3 characters, authors of 0 and 1, descriptions of 0, 1,
\* 100 and 101, ratings 0, 1, 5, 6 and years 1999, 2000, 2023, 2024
Description100 ==
    "0123456789012345678901234567890123456789012345678901234567890123456789012345678901234567890123456789"

ValidatorRequests ==
    { [id |-> None, title |-> t, author |-> a, description |-> d,
       rating |-> r, published_date |-> y] :
          t \in {"ab", "abc"}, a \in {"", "a"},
          d \in {"", "d", Description100, Description100 \o "x"},
          r \in {0, 1, 5, 6}, y \in {1999, 2000, 2023, 2024} }

BookIds == 0..MaxId

Years == {2000, 2023, 2030}

Ratings == 1..6

\* placeholder in `last` for handlers that take no request body
NoRequest == WithId([title |-> "", author |-> "", description |-> "",
                     rating |-> 0, published_date |-> 0], None)

(* ---------------------------- responses ------------------------------- *)

Response(op, arg, req, status, detail, kind, body) ==
    [op |-> op, arg |-> arg, req |-> req, status |-> status,
     detail |-> detail, kind |-> kind, body |-> body]

\* request validation failed: FastAPI answers 422 and the handler is not run
Unprocessable(op, arg, req) ==
    Response(op, arg, req, 422, "validation", "error", << >>)

\* raise HTTPException(status_code=404, detail=...)
HTTPException(op, arg, req, detail) ==
    Response(op, arg, req, 404, detail, "error", << >>)

\* after an operation other than a successful create, a run of creates can
\* only be under way if the collection is empty
RunAfter(books) == [on |-> books = << >>, ids |-> << >>]

(* --------------------------- pure helpers ----------------------------- *)

\* for i in range(len(BOOKS)): if BOOKS[i].id == key: ... break
\* the index of the first match from position i on, 0 when the scan ends
RECURSIVE FirstIndex(_, _, _)
FirstIndex(books, key, i) ==
    IF i > Len(books) THEN 0
    ELSE IF Some(books[i].id) = key THEN i
    ELSE FirstIndex(books, key, i + 1)

\* for book in BOOKS: if book.id == book_id: return book
\* << >> when the scan ends without a match, else the record found
Lookup(books, book_id) ==
    LET i == FirstIndex(books, Some(book_id), 1)
    IN  IF i = 0 THEN << >> ELSE << books[i] >>

\* a wrong pop: BOOKS.pop() without the index removes the last element
PopLast(books, i) == SubSeq(books, 1, Len(books) - 1)

\* a wrong pop: del BOOKS[i:] removes the match and everything after it
PopTail(books, i) == SubSeq(books, 1, i - 1)

\* BOOKS.pop(i)
Pop(books, i) == SubSeq(books, 1, i - 1) \o SubSeq(books, i + 1, Len(books))

\* a wrong id rule: the number of books plus one
find_book_id_by_count(books, book) == [book EXCEPT !.id = Len(books) + 1]

\* a wrong id rule: the first book's id plus one
find_book_id_from_first(books, book) ==
    [book EXCEPT !.id = IF Len(books) = 0 THEN 1 ELSE books[1].id + 1]

\* a wrong id rule: ids of an empty collection start at 0
find_book_id_from_zero(books, book) ==
    [book EXCEPT !.id = IF Len(books) = 0 THEN 0
                        ELSE books[Len(books)].id + 1]

\* a wrong id rule: an id the client sent is kept, only a missing one is
\* generated
find_book_id_keep_client(books, book) ==
    [book EXCEPT !.id = IF book.id # None THEN CHOOSE n \in book.id : TRUE
                        ELSE IF Len(books) = 0 THEN 1
                        ELSE books[Len(books)].id + 1]

\* a wrong id rule: the smallest positive id no book has, which fills gaps
find_book_id_first_gap(books, book) ==
    [book EXCEPT !.id =
         CHOOSE n \in 1..(Len(books) + 1) :
             /\ \A i \in 1..Len(books) : books[i].id # n
             /\ \A m \in 1..(n - 1) : \E i \in 1..Len(books) : books[i].id = m]

find_book_id(books, book) ==
    [book EXCEPT !.id = IF Len(books) = 0 THEN 1
                        ELSE books[Len(books)].id + 1]

\* a wrong conversion: author and description passed in each other's place
BookOfRequestSwapped(book_request) ==
    [id |-> book_request.id, title |-> book_request.title,
     author |-> book_request.description,
     description |-> book_request.author, rating |-> book_request.rating,
     published_date |-> book_request.published_date]

\* Book(**book_request.model_dump()): the request's fields, id included
BookOfRequest(book_request) ==
    Book(book_request.id, book_request.title, book_request.author,
         book_request.description, book_request.rating,
         book_request.published_date)

\* a wrong replacement: the match is removed and the request appended
ReplaceAtEnd(books, i, book) ==
    Append(SubSeq(books, 1, i - 1) \o SubSeq(books, i + 1, Len(books)),
           [id |-> CHOOSE n \in book.id : TRUE, title |-> book.title,
            author |-> book.author, description |-> book.description,
            rating |-> book.rating, published_date |-> book.published_date])

\* BOOKS[i] = book: the request object itself is stored; its id is an integer
\* here, since it has just compared equal to a stored id
Replace(books, i, book) ==
    [books EXCEPT ![i] = WithId(book, CHOOSE n \in book.id : TRUE)]

\* a wrong filter: each match is put in front of the earlier ones
RECURSIVE BooksOfYearReversed(_, _, _, _)
BooksOfYearReversed(books, year, i, books_to_return) ==
    IF i > Len(books) THEN books_to_return
    ELSE BooksOfYearReversed(books, year, i + 1,
                             IF books[i].published_date = year
                             THEN << books[i] >> \o books_to_return
                             ELSE books_to_return)

\* for book in BOOKS: if book.published_date == year: append
RECURSIVE BooksOfYear(_, _, _, _)
BooksOfYear(books, year, i, books_to_return) ==
    IF i > Len(books) THEN books_to_return
    ELSE BooksOfYear(books, year, i + 1,
                     IF books[i].published_date = year
                     THEN Append(books_to_return, books[i])
                     ELSE books_to_return)

\* for i in BOOKS: if i.published_date == year: return i
RECURSIVE FirstOfYear(_, _, _)
FirstOfYear(books, year, i) ==
    IF i > Len(books) THEN 0
    ELSE IF books[i].published_date = year THEN i
    ELSE FirstOfYear(books, year, i + 1)

\* a wrong filter: each match is put in front of the earlier ones
RECURSIVE BooksOfRatingReversed(_, _, _, _)
BooksOfRatingReversed(books, book_rating, i, books_to_return) ==
    IF i > Len(books) THEN books_to_return
    ELSE BooksOfRatingReversed(books, book_rating, i + 1,
                               IF books[i].rating = book_rating
                               THEN << books[i] >> \o books_to_return
                               ELSE books_to_return)

\* for book in BOOKS: if book.rating == book_rating: append
RECURSIVE BooksOfRating(_, _, _, _)
BooksOfRating(books, book_rating, i, books_to_return) ==
    IF i > Len(books) THEN books_to_return
    ELSE BooksOfRating(books, book_rating, i + 1,
                       IF books[i].rating = book_rating
                       THEN Append(books_to_return, books[i])
                       ELSE books_to_return)

(* ------------------------------ actions ------------------------------- *)

\* a request slot of the batch: idle, pending (sent, handler not yet run) or
\* done, then with the status of the answer and, for a create, the id given
Slot(phase, op, arg, req, status, got) ==
    [phase |-> phase, op |-> op, arg |-> arg, req |-> req,
     status |-> status, got |-> got]

Idle == Slot("idle", "", 0, NoRequest, 0, 0)

Init ==
    /\ BOOKS = SeedBooks
    /\ last = Response("init", 0, NoRequest, 0, "", "null", << >>)
    /\ run = RunAfter(SeedBooks)
    /\ used = { SeedBooks[i].id : i \in 1..Len(SeedBooks) }
    /\ inflight = [c \in 1..NumRequests |-> Idle]

\* a wrong listing: return BOOKS[::-1], the newest book first
read_all_books_reversed ==
    /\ last' = Response("read_all_books", 0, NoRequest, 200, "", "list",
                        [i \in 1..Len(BOOKS) |-> BOOKS[Len(BOOKS) + 1 - i]])
    /\ UNCHANGED BOOKS
    /\ run' = RunAfter(BOOKS)

read_all_books ==
    /\ last' = Response("read_all_books", 0, NoRequest, 200, "", "list", BOOKS)
    /\ UNCHANGED BOOKS
    /\ run' = RunAfter(BOOKS)

\* first handler of /books/published_year/{year}: every match, 404 when none
get_books_by_years(year) ==
    LET books_to_return == BooksOfYear(BOOKS, year, 1, << >>)
    IN  /\ last' = IF books_to_return = << >>
                   THEN HTTPException("get_books_by_years", year, NoRequest,
                                      "No books found for this year")
                   ELSE Response("get_books_by_years", year, NoRequest, 200,
                                 "", "list", books_to_return)
        /\ UNCHANGED BOOKS
        /\ run' = RunAfter(BOOKS)

\* second handler of /books/published_year/{year}: the first match only
get_books_by_years_first(year) ==
    LET i == FirstOfYear(BOOKS, year, 1)
    IN  /\ last' = IF i = 0
                   THEN HTTPException("get_books_by_years_first", year,
                                      NoRequest, "Item not found")
                   ELSE Response("get_books_by_years_first", year, NoRequest,
                                 200, "", "record", << BOOKS[i] >>)
        /\ UNCHANGED BOOKS
        /\ run' = RunAfter(BOOKS)

read_book(book_id) ==
    LET found == Lookup(BOOKS, book_id)
    IN  /\ last' = IF ~PathIdValid(book_id)
                   THEN Unprocessable("read_book", book_id, NoRequest)
                   ELSE IF found = << >>
                   THEN HTTPException("read_book", book_id, NoRequest,
                                      "Item not found")
                   ELSE Response("read_book", book_id, NoRequest, 200, "",
                                 "record", found)
        /\ UNCHANGED BOOKS
        /\ run' = RunAfter(BOOKS)

read_book_by_rating(book_rating) ==
    /\ last' = IF ~QueryRatingValid(book_rating)
               THEN Unprocessable("read_book_by_rating", book_rating, NoRequest)
               ELSE Response("read_book_by_rating", book_rating, NoRequest,
                             200, "", "list",
                             BooksOfRating(BOOKS, book_rating, 1, << >>))
    /\ UNCHANGED BOOKS
    /\ run' = RunAfter(BOOKS)

\* a wrong create: BOOKS.insert(0, ...) puts the new book in front
create_book_at_front(book_request) ==
    IF ~BookRequestValid(book_request)
    THEN /\ last' = Unprocessable("create_book", 0, book_request)
         /\ UNCHANGED BOOKS
         /\ run' = RunAfter(BOOKS)
    ELSE LET new_book == find_book_id(BOOKS, BookOfRequest(book_request))
         IN  /\ new_book.id <= MaxId
             /\ BOOKS' = << new_book >> \o BOOKS
             /\ last' = Response("create_book", new_book.id, book_request,
                                 201, "", "null", << >>)
             /\ run' = IF run.on
                       THEN [run EXCEPT !.ids = Append(@, new_book.id)]
                       ELSE run

create_book(book_request) ==
    IF ~BookRequestValid(book_request)
    THEN /\ last' = Unprocessable("create_book", 0, book_request)
         /\ UNCHANGED BOOKS
         /\ run' = RunAfter(BOOKS)
    ELSE LET new_book == find_book_id(BOOKS, BookOfRequest(book_request))
         IN  /\ new_book.id <= MaxId
             /\ BOOKS' = Append(BOOKS, new_book)
             /\ last' = Response("create_book", new_book.id, book_request,
                                 201, "", "null", << >>)
             /\ run' = IF run.on
                       THEN [run EXCEPT !.ids = Append(@, new_book.id)]
                       ELSE run

\* the body the two update_book handlers share.  book_changed is bound only
\* by the assignment inside the loop, so reading it after a scan without a
\* match raises UnboundLocalError, which the server answers with 500.
\* On success the handler returns None with the default status 200; arg is
\* the position that was overwritten.
update_book_body(op, book) ==
    IF ~BookRequestValid(book)
    THEN /\ last' = Unprocessable(op, 0, book)
         /\ UNCHANGED BOOKS
         /\ run' = RunAfter(BOOKS)
    ELSE LET i == FirstIndex(BOOKS, book.id, 1)
         IN  /\ BOOKS' = IF i = 0 THEN BOOKS ELSE Replace(BOOKS, i, book)
             /\ last' = IF i = 0
                        THEN Response(op, 0, book, 500, "UnboundLocalError",
                                      "error", << >>)
                        ELSE Response(op, i, book, 200, "", "null", << >>)
             /\ run' = RunAfter(BOOKS')

\* @app.get("books/update_book")
update_book_get(book) == update_book_body("update_book_get", book)

\* @app.put("books/update_book")
update_book_put(book) == update_book_body("update_book_put", book)

\* a wrong delete: the pop stands after the loop, so a scan without a match
\* removes the last book before the 404 is raised
delete_book_pop_after_loop(book_id) ==
    IF ~PathIdValid(book_id)
    THEN /\ last' = Unprocessable("delete_book", book_id, NoRequest)
         /\ UNCHANGED BOOKS
         /\ run' = RunAfter(BOOKS)
    ELSE LET i == FirstIndex(BOOKS, Some(book_id), 1)
         IN  /\ BOOKS' = IF i = 0 THEN SubSeq(BOOKS, 1, Len(BOOKS) - 1)
                         ELSE Pop(BOOKS, i)
             /\ last' = IF i = 0
                        THEN HTTPException("delete_book", book_id, NoRequest,
                                           "Item not found")
                        ELSE Response("delete_book", book_id, NoRequest, 204,
                                      "", "null", << >>)
             /\ run' = RunAfter(BOOKS')

delete_book(book_id) ==
    IF ~PathIdValid(book_id)
    THEN /\ last' = Unprocessable("delete_book", book_id, NoRequest)
         /\ UNCHANGED BOOKS
         /\ run' = RunAfter(BOOKS)
    ELSE LET i == FirstIndex(BOOKS, Some(book_id), 1)
         IN  /\ BOOKS' = IF i = 0 THEN BOOKS ELSE Pop(BOOKS, i)
             /\ last' = IF i = 0
                        THEN HTTPException("delete_book", book_id, NoRequest,
                                           "Item not found")
                        ELSE Response("delete_book", book_id, NoRequest, 204,
                                      "", "null", << >>)
             /\ run' = RunAfter(BOOKS')

\* the variables a specification leaves alone when it does not observe them
aux == <<used, inflight>>

Next ==
    \/ read_all_books /\ UNCHANGED aux
    \/ \E year \in Years : get_books_by_years(year) /\ UNCHANGED aux
    \/ \E year \in Years : get_books_by_years_first(year) /\ UNCHANGED aux
    \/ \E book_id \in BookIds : read_book(book_id) /\ UNCHANGED aux
    \/ \E book_rating \in Ratings :
           read_book_by_rating(book_rating) /\ UNCHANGED aux
    \/ \E book_request \in CreateRequests :
           create_book(book_request) /\ UNCHANGED aux
    \/ \E book \in UpdateRequests : update_book_get(book) /\ UNCHANGED aux
    \/ \E book \in UpdateRequests : update_book_put(book) /\ UNCHANGED aux
    \/ \E book_id \in BookIds : delete_book(book_id) /\ UNCHANGED aux

Spec == Init /\ [][Next]_vars

\* creates and deletes only, with the ids held so far remembered in `used`
Remember ==
    /\ used' = used \cup { BOOKS'[i].id : i \in 1..Len(BOOKS') }
    /\ UNCHANGED inflight

NextHistory ==
    \/ \E book_request \in CreateRequests :
           create_book(book_request) /\ Remember
    \/ \E book_id \in BookIds : delete_book(book_id) /\ Remember

SpecHistory == Init /\ [][NextHistory]_vars

\* a batch of requests sent at the same time.  The handlers are coroutines
\* (async def) without any await, so the event loop runs each of them from
\* its first line to its return or raise before it starts another: a pending
\* request is served in one step, and the pending ones in any order.
BatchRequests ==
    { Slot("pending", "create_book", 0, r, 0, 0) :
          r \in { WithId(c, None) : c \in ValidContents } }
        \cup { Slot("pending", "update_book_put", 0, r, 0, 0) :
                   r \in { WithId(c, Some(Len(SeedBooks))) :
                               c \in ValidContents } }
        \cup { Slot("pending", "delete_book", n, NoRequest, 0, 0) :
                   n \in {Len(SeedBooks), Len(SeedBooks) + 1} }

AllSent == \A c \in 1..NumRequests : inflight[c].phase # "idle"

\* the answer to the request of slot c is the response just made
Answered(c) ==
    /\ inflight' = [inflight EXCEPT ![c] =
                        [@ EXCEPT !.phase = "done", !.status = last'.status,
                                  !.got = last'.arg]]
    /\ UNCHANGED used

dispatch(c, request) ==
    /\ inflight[c].phase = "idle"
    /\ inflight' = [inflight EXCEPT ![c] = request]
    /\ UNCHANGED <<BOOKS, last, run, used>>

\* a wrong create: the handler is suspended between reading the last id and
\* the append, so the id is the one read before any request of the batch was
\* served
serve_create_stale(c) ==
    /\ AllSent
    /\ inflight[c].phase = "pending"
    /\ inflight[c].op = "create_book"
    /\ LET new_book ==
               find_book_id(SeedBooks, BookOfRequest(inflight[c].req))
       IN  /\ BOOKS' = Append(BOOKS, new_book)
           /\ last' = Response("create_book", new_book.id, inflight[c].req,
                               201, "", "null", << >>)
           /\ run' = RunAfter(BOOKS')
    /\ Answered(c)

serve_create(c) ==
    /\ AllSent
    /\ inflight[c].phase = "pending"
    /\ inflight[c].op = "create_book"
    /\ create_book(inflight[c].req)
    /\ Answered(c)

serve_update(c) ==
    /\ AllSent
    /\ inflight[c].phase = "pending"
    /\ inflight[c].op = "update_book_put"
    /\ update_book_put(inflight[c].req)
    /\ Answered(c)

serve_delete(c) ==
    /\ AllSent
    /\ inflight[c].phase = "pending"
    /\ inflight[c].op = "delete_book"
    /\ delete_book(inflight[c].arg)
    /\ Answered(c)

NextConcurrent ==
    \/ \E c \in 1..NumRequests, request \in BatchRequests :
           dispatch(c, request)
    \/ \E c \in 1..NumRequests : serve_create(c)
    \/ \E c \in 1..NumRequests : serve_update(c)
    \/ \E c \in 1..NumRequests : serve_delete(c)

SpecConcurrent == Init /\ [][NextConcurrent]_vars

\* the validator on its own: creates only, with payloads around every rule
NextValidator ==
    \E book_request \in ValidatorRequests :
        create_book(book_request) /\ UNCHANGED aux

SpecValidator == Init /\ [][NextValidator]_vars

(* ----------------------- vocabulary of the claims --------------------- *)

IdsOf(books) == { books[i].id : i \in 1..Len(books) }

MaxOf(S) == CHOOSE m \in S : \A k \in S : k <= m

FieldsOf(b) ==
    [title |-> b.title, author |-> b.author, description |-> b.description,
     rating |-> b.rating, published_date |-> b.published_date]

\* books without the element at position k
Without(books, k) ==
    [j \in 1..(Len(books) - 1) |-> IF j < k THEN books[j] ELSE books[j + 1]]

UpdateOps == {"update_book_get", "update_book_put"}

YearOps == {"get_books_by_years", "get_books_by_years_first"}

Created == last.op = "create_book" /\ last.status = 201

Deleted == last.op = "delete_book" /\ last.status = 204

\* the step just taken updated or deleted the record with this id
Touches(id) ==
    \/ last'.op \in UpdateOps /\ last'.status = 200 /\ last'.req.id = Some(id)
    \/ last'.op = "delete_book" /\ last'.status = 204 /\ last'.arg = id

(* ------------------------------ claims -------------------------------- *)

\* C1: in every reachable state no two records of the collection have the
\* same id.
C1_UniqueIds ==
    \A i, j \in 1..Len(BOOKS) : i # j => BOOKS[i].id # BOOKS[j].id

\* a create that followed at least one delete
C1_Witness == Created /\ Len(BOOKS) >= 2 /\ Len(BOOKS) < last.arg

\* C2: a successful create stores the id 1 when the collection was empty and
\* otherwise the largest id of the collection plus one, which is greater than
\* every id the collection held at that moment.
C2_NewIdIsMaxPlusOne ==
    [][ (last'.op = "create_book" /\ last'.status = 201) =>
            /\ Len(BOOKS') = Len(BOOKS) + 1
            /\ BOOKS'[Len(BOOKS')].id =
                   IF BOOKS = << >> THEN 1 ELSE MaxOf(IdsOf(BOOKS)) + 1
            /\ \A k \in IdsOf(BOOKS) : BOOKS'[Len(BOOKS')].id > k ]_vars

\* a create into a collection that has lost records and holds a record that
\* is no longer the seeded one
C2_Witness ==
    /\ Created
    /\ Len(BOOKS) + 1 < last.arg
    /\ \E i \in 1..(Len(BOOKS) - 1) :
           BOOKS[i].id <= Len(SeedBooks) /\ BOOKS[i] # SeedBooks[BOOKS[i].id]

\* C3: every stored record, the initial ones included, satisfies the field
\* rules of BookRequest.
C3_StoredRecordsValid ==
    \A i \in 1..Len(BOOKS) : BookRequestValid(BOOKS[i])

\* C4: an update whose id matches no record answers 404 'Item not found' and
\* leaves the collection unchanged.
C4_UpdateUnknownIsNotFound ==
    [][ ( /\ last'.op \in UpdateOps
          /\ BookRequestValid(last'.req)
          /\ \A i \in 1..Len(BOOKS) : Some(BOOKS[i].id) # last'.req.id ) =>
            /\ last'.status = 404
            /\ last'.detail = "Item not found"
            /\ BOOKS' = BOOKS ]_vars

\* C5 as stated: the year filter answers 200 with exactly the records of
\* that year, as a sequence in insertion order, also when there are none.
C5_YearFilterNeverFails ==
    last.op \in YearOps =>
        /\ last.status = 200
        /\ last.kind = "list"
        /\ last.body = SelectSeq(BOOKS, LAMBDA b : b.published_date = last.arg)

\* C5 amended: when at least one record has the year, the list handler
\* answers with exactly those records in insertion order and the first-match
\* handler with the first of them; when none has it, both answer 404.
C5_YearFilter ==
    LET matching == SelectSeq(BOOKS, LAMBDA b : b.published_date = last.arg)
    IN  /\ last.op = "get_books_by_years" =>
               IF matching # << >>
               THEN last.status = 200 /\ last.kind = "list"
                    /\ last.body = matching
               ELSE last.status = 404
                    /\ last.detail = "No books found for this year"
        /\ last.op = "get_books_by_years_first" =>
               IF matching # << >>
               THEN last.status = 200 /\ last.kind = "record"
                    /\ last.body = << Head(matching) >>
               ELSE last.status = 404 /\ last.detail = "Item not found"

\* the list handler answered with several records, one of them a created one
C5_Witness ==
    /\ last.op = "get_books_by_years"
    /\ last.status = 200
    /\ Len(last.body) >= 2
    /\ last.arg = 2023

\* C6: after a create, looking up the assigned id yields the candidate's
\* fields, and a step that neither updates nor deletes the id of a record
\* leaves what a lookup of that id yields as it was (a step that leaves the
\* collection as it was does so for every id).
C6_RoundTrip ==
    [][ /\ (last'.op = "create_book" /\ last'.status = 201) =>
               /\ Lookup(BOOKS', last'.arg) # << >>
               /\ FieldsOf(Lookup(BOOKS', last'.arg)[1]) = FieldsOf(last'.req)
               /\ Lookup(BOOKS', last'.arg)[1].id = last'.arg
        /\ \/ BOOKS' = BOOKS
           \/ \A id \in IdsOf(BOOKS) :
                  ~Touches(id) => Lookup(BOOKS', id) = Lookup(BOOKS, id) ]_vars

\* a created record is still there after another record was deleted
C6_Witness ==
    /\ Deleted
    /\ \E i \in 1..Len(BOOKS) :
           BOOKS[i].id > Len(SeedBooks) /\ BOOKS[i].id # last.arg

\* C7: right after a successful delete no record has the deleted id, and an
\* id that no record has stays without a record until a create assigns it.
C7_DeletedStaysGone ==
    [][ /\ (last'.op = "delete_book" /\ last'.status = 204) =>
               Lookup(BOOKS', last'.arg) = << >>
        /\ \/ BOOKS' = BOOKS
           \/ \A id \in (1..MaxId) \ IdsOf(BOOKS) :
                  ~(last'.op = "create_book" /\ last'.status = 201
                    /\ last'.arg = id) =>
                      Lookup(BOOKS', id) = << >> ]_vars

\* a lookup of a seeded id answers 404: the record was deleted before
C7_Witness ==
    /\ last.op = "read_book"
    /\ last.status = 404
    /\ last.arg \in 1..Len(SeedBooks)

\* C8: the creates made in a row since the collection was empty are assigned
\* the ids 1, 2, ..., n in that order.
C8_RunFromEmpty ==
    run.on => run.ids = [i \in 1..Len(run.ids) |-> i]

\* three creates in a row on an emptied collection
C8_Witness == run.on /\ Len(run.ids) >= 3 /\ Len(BOOKS) = Len(run.ids)

\* C9: an update whose id matches a record succeeds and overwrites that
\* record where it stands with the fields of the input; length, order and
\* all other records stay.
C9_UpdateInPlace ==
    [][ ( /\ last'.op \in UpdateOps
          /\ BookRequestValid(last'.req)
          /\ \E i \in 1..Len(BOOKS) : Some(BOOKS[i].id) = last'.req.id ) =>
            /\ last'.status = 200
            /\ \E k \in 1..Len(BOOKS) :
                   /\ Some(BOOKS[k].id) = last'.req.id
                   /\ Len(BOOKS') = Len(BOOKS)
                   /\ FieldsOf(BOOKS'[k]) = FieldsOf(last'.req)
                   /\ Some(BOOKS'[k].id) = last'.req.id
                   /\ \A j \in 1..Len(BOOKS) : j # k => BOOKS'[j] = BOOKS[j]
      ]_vars

\* an update overwrote a record that has records before and after it
C9_Witness ==
    /\ last.op \in UpdateOps
    /\ last.status = 200
    /\ 1 < last.arg /\ last.arg < Len(BOOKS)
    /\ FieldsOf(BOOKS[last.arg]) = FieldsOf(last.req)

\* C10: a delete whose id matches removes exactly that record and keeps the
\* others in their order; without a match it answers 404 and the collection
\* is unchanged.
C10_DeleteExactlyOne ==
    [][ (last'.op = "delete_book" /\ PathIdValid(last'.arg)) =>
            IF \E i \in 1..Len(BOOKS) : BOOKS[i].id = last'.arg
            THEN /\ last'.status = 204
                 /\ \E k \in 1..Len(BOOKS) :
                        /\ BOOKS[k].id = last'.arg
                        /\ BOOKS' = Without(BOOKS, k)
            ELSE /\ last'.status = 404
                 /\ last'.detail = "Item not found"
                 /\ BOOKS' = BOOKS ]_vars

\* a delete took a record out from between two others
C10_Witness ==
    /\ Deleted
    /\ \E i \in 1..(Len(BOOKS) - 1) :
           BOOKS[i].id < last.arg /\ last.arg < BOOKS[i + 1].id

\* C11: for every rating from 1 to 5 the rating filter answers 200 with
\* exactly the records of that rating, in the order of the collection, and
\* with the empty sequence when there are none.
C11_RatingFilter ==
    (last.op = "read_book_by_rating" /\ last.arg \in 1..5) =>
        /\ last.status = 200
        /\ last.kind = "list"
        /\ last.body = SelectSeq(BOOKS, LAMBDA b : b.rating = last.arg)

\* the filter answered with seeded and created records of one rating
C11_Witness ==
    /\ last.op = "read_book_by_rating"
    /\ last.status = 200
    /\ Len(last.body) >= 2
    /\ last.body[1].id <= Len(SeedBooks)
    /\ last.body[Len(last.body)].id > Len(SeedBooks)

\* C12: a step that ends in an error (404, 422, or the 500 of an update
\* without a match) leaves the collection as it was.
C12_ErrorsChangeNothing ==
    [][ last'.status >= 400 => BOOKS' = BOOKS ]_vars

\* a delete of an id that was deleted before answered 404
C12_Witness ==
    /\ last.op = "delete_book"
    /\ last.status = 404
    /\ last.arg \in 1..Len(SeedBooks)
    /\ Len(BOOKS) > 0

\* C13: the id stored by a successful create is the generated one (1 for an
\* empty collection, else the last id plus one), whatever id the request
\* carries; the record stored is the one stored for the same request
\* without an id.
C13_ClientIdIgnored ==
    [][ (last'.op = "create_book" /\ last'.status = 201) =>
            BOOKS' = Append(BOOKS,
                 Book(IF BOOKS = << >> THEN 1
                      ELSE BOOKS[Len(BOOKS)].id + 1,
                      last'.req.title, last'.req.author,
                      last'.req.description, last'.req.rating,
                      last'.req.published_date)) ]_vars

\* a create whose request carried an id stored another id
C13_Witness ==
    /\ Created
    /\ last.req.id # None
    /\ last.arg \notin last.req.id
    /\ BOOKS[Len(BOOKS)].id = last.arg

ReadOps == {"read_all_books", "get_books_by_years", "get_books_by_years_first",
            "read_book", "read_book_by_rating"}

\* the position of the record with this id
PosOf(books, id) == CHOOSE i \in 1..Len(books) : books[i].id = id

\* C15: list_all answers with the whole collection as it stands; no read
\* operation changes the collection; and every step keeps the records that
\* stay in their relative order (each after its neighbour before it) and puts
\* a new record last, so the collection is always in insertion order, an
\* updated record where it stood.
C15_ListAllInsertionOrder ==
    [][ /\ last'.op = "read_all_books" =>
               last'.status = 200 /\ last'.kind = "list" /\ last'.body = BOOKS
        /\ last'.op \in ReadOps => BOOKS' = BOOKS
        /\ \/ BOOKS' = BOOKS
           \/ \A i \in 1..(Len(BOOKS') - 1) :
                  IF BOOKS'[i + 1].id \in IdsOf(BOOKS)
                  THEN /\ BOOKS'[i].id \in IdsOf(BOOKS)
                       /\ PosOf(BOOKS, BOOKS'[i].id)
                              < PosOf(BOOKS, BOOKS'[i + 1].id)
                  ELSE i + 1 = Len(BOOKS') ]_vars

\* list_all answered with a collection that has lost a record, holds an
\* overwritten record before its end and a created one at its end
C15_Witness ==
    /\ last.op = "read_all_books"
    /\ last.body = BOOKS
    /\ Len(BOOKS) >= 3
    /\ Len(BOOKS) < BOOKS[Len(BOOKS)].id
    /\ BOOKS[Len(BOOKS)].id > Len(SeedBooks)
    /\ \E i \in 1..(Len(BOOKS) - 1) :
           BOOKS[i].id <= Len(SeedBooks) /\ BOOKS[i] # SeedBooks[BOOKS[i].id]

\* C16: the ids are strictly increasing in list order, so the last record of
\* a collection that is not empty has the largest id.
C16_IdsIncreasing ==
    /\ \A i \in 1..(Len(BOOKS) - 1) : BOOKS[i].id < BOOKS[i + 1].id
    /\ BOOKS # << >> => BOOKS[Len(BOOKS)].id = MaxOf(IdsOf(BOOKS))

\* an update was made on a collection that had seen a delete and a create
C16_Witness ==
    /\ last.op \in UpdateOps
    /\ last.status = 200
    /\ Len(BOOKS) >= 2
    /\ Len(BOOKS) < BOOKS[Len(BOOKS)].id
    /\ BOOKS[Len(BOOKS)].id > Len(SeedBooks)

\* C19: the example payload of BookRequest's documentation, posted as it
\* is, is accepted.
C19_ExampleAccepted ==
    (last.op = "create_book" /\ FieldsOf(last.req) = ExamplePayload) =>
        last.status = 201

C17_IdNeverReused ==
    [][ (last'.op = "create_book" /\ last'.status = 201) =>
            last'.arg \notin used ]_vars

\* C17 amended: a create never assigns an id that a record of the collection
\* holds, and it assigns an id held before only when that id is greater than
\* every id left in the collection.
C17_OnlyTrailingIdReused ==
    [][ (last'.op = "create_book" /\ last'.status = 201) =>
            /\ last'.arg \notin IdsOf(BOOKS)
            /\ last'.arg \in used => \A k \in IdsOf(BOOKS) : k < last'.arg ]_vars

\* a create was given the id of a seeded record again while other records
\* were there
C17_Witness ==
    /\ Created
    /\ last.arg <= Len(SeedBooks)
    /\ last.arg \in used
    /\ Len(BOOKS) >= 2
    /\ BOOKS[Len(BOOKS)].id = last.arg

\* a create of the batch that was served and stored a record
CreateDone(c) ==
    /\ inflight[c].phase = "done"
    /\ inflight[c].op = "create_book"
    /\ inflight[c].status = 201

\* C18 as stated: whatever the order in which the requests of a batch are
\* served, no two records have the same id and no two creates of the batch
\* are given the same id.
C18_ConcurrentCreatesDistinct ==
    /\ \A i, j \in 1..Len(BOOKS) : i # j => BOOKS[i].id # BOOKS[j].id
    /\ \A a, b \in 1..NumRequests :
           (a # b /\ CreateDone(a) /\ CreateDone(b)) =>
               inflight[a].got # inflight[b].got

\* C18 amended: whatever the order in which the requests of a batch are
\* served, no two records have the same id, and two creates of the batch are
\* given the same id only when a delete of the batch has removed the record
\* with that id.
C18_ConcurrentIdsUnique ==
    /\ \A i, j \in 1..Len(BOOKS) : i # j => BOOKS[i].id # BOOKS[j].id
    /\ \A a, b \in 1..NumRequests :
           (a # b /\ CreateDone(a) /\ CreateDone(b)
                  /\ inflight[a].got = inflight[b].got) =>
               \E d \in 1..NumRequests :
                   /\ inflight[d].phase = "done"
                   /\ inflight[d].op = "delete_book"
                   /\ inflight[d].status = 204
                   /\ inflight[d].arg = inflight[a].got

\* two creates of one batch were served and given different ids, both
\* records being in the collection
C18_Witness ==
    \E a, b \in 1..NumRequests :
        /\ a # b /\ CreateDone(a) /\ CreateDone(b)
        /\ inflight[a].got # inflight[b].got
        /\ {inflight[a].got, inflight[b].got} \subseteq IdsOf(BOOKS)

====
